---- MODULE Spec2Model ----
(***************************************************************************)
(* A model of brush.js: a CLI that sends every matched file through a      *)
(* chat-completion request and overwrites the file with the answer.        *)
(* Texts (file contents, prompts, completions) are sequences of            *)
(* one-character strings.  Matched files are named 1..K in the order the   *)
(* matcher returns them.                                                   *)
(***************************************************************************)
EXTENDS Integers, Sequences, FiniteSets, TLC

VARIABLES
    pc,                 \* position of main(): the await it is suspended on
    exitCode,           \* -1 while running, else the process exit code
    hasConfigArg,       \* a --config= argument is on the command line
    apiKey,             \* process.env.OPENAI_API_KEY is set and non-empty
    nMatched,           \* number of files on disk the patterns match
    dryRun,             \* config.dryRun
    intervalMilis,      \* config.intervalMilis
    userPromptTemplate, \* text of brush.prompt.md
    entries,            \* result of glob(): the matched files, in order
    i,                  \* index in entries of the for-of loop
    content,            \* processFile's local: the text read from the file
    userPrompt,         \* processFile's local: the rendered user prompt
    result,             \* main's local: what processFile returned
    disk,               \* on-disk text of every matched file
    trace               \* everything the run did so far, in order

vars == <<pc, exitCode, hasConfigArg, apiKey, nMatched, dryRun, intervalMilis,
          userPromptTemplate, entries, i, content, userPrompt, result, disk,
          trace>>

(***************************************************************************)
(* Bounds.                                                                 *)
(***************************************************************************)
MaxFiles == 3
MaxPieces == 3
MaxContentLen == 2

(***************************************************************************)
(* Texts.                                                                  *)
(***************************************************************************)
Token == <<"{", "{", "C", "O", "N", "T", "E", "N", "T", "}", "}">>
SpacedToken == <<"{", "{", " ", "C", "O", "N", "T", "E", "N", "T", "\t", " ", "}", "}">>

IsSpace(ch) == ch \in {" ", "\t"}

Word == <<"C", "O", "N", "T", "E", "N", "T">>

\* number of whitespace characters of s starting at position p
RECURSIVE SpaceRun(_, _)
SpaceRun(s, p) ==
    IF p <= Len(s) /\ IsSpace(s[p]) THEN 1 + SpaceRun(s, p + 1) ELSE 0

HasAt(s, p, w) ==
    /\ p + Len(w) - 1 <= Len(s)
    /\ SubSeq(s, p, p + Len(w) - 1) = w

\* length of the match of /{{\s*CONTENT\s*}}/ that starts at position p of s,
\* 0 when there is none
MatchLen(s, p) ==
    IF ~HasAt(s, p, <<"{", "{">>) THEN 0
    ELSE LET a == p + 2 + SpaceRun(s, p + 2) IN
         IF ~HasAt(s, a, Word) THEN 0
         ELSE LET b == a + Len(Word) + SpaceRun(s, a + Len(Word)) IN
              IF HasAt(s, b, <<"}", "}">>) THEN b + 2 - p ELSE 0

\* the replacement text of String.prototype.replace for one match: $$, $&,
\* $` and $' in the replacement string are substitution patterns (the regex
\* has no capture group, so $1..$99 and $< stay as written)
RECURSIVE Expand(_, _, _, _, _)
Expand(c, k, matched, before, after) ==
    IF k > Len(c) THEN <<>>
    ELSE IF c[k] = "$" /\ k < Len(c) /\ c[k + 1] = "$"
         THEN <<"$">> \o Expand(c, k + 2, matched, before, after)
    ELSE IF c[k] = "$" /\ k < Len(c) /\ c[k + 1] = "&"
         THEN matched \o Expand(c, k + 2, matched, before, after)
    ELSE IF c[k] = "$" /\ k < Len(c) /\ c[k + 1] = "`"
         THEN before \o Expand(c, k + 2, matched, before, after)
    ELSE IF c[k] = "$" /\ k < Len(c) /\ c[k + 1] = "'"
         THEN after \o Expand(c, k + 2, matched, before, after)
    ELSE <<c[k]>> \o Expand(c, k + 1, matched, before, after)

\* template.replace(/{{\s*CONTENT\s*}}/g, c), scanning from position p
RECURSIVE ReplaceFrom(_, _, _)
ReplaceFrom(t, p, c) ==
    IF p > Len(t) THEN <<>>
    ELSE LET n == MatchLen(t, p) IN
         IF n > 0
         THEN Expand(c, 1, SubSeq(t, p, p + n - 1), SubSeq(t, 1, p - 1),
                     SubSeq(t, p + n, Len(t)))
              \o ReplaceFrom(t, p + n, c)
         ELSE <<t[p]>> \o ReplaceFrom(t, p + 1, c)

Render(t, c) == ReplaceFrom(t, 1, c)


(***************************************************************************)
(* The run.                                                                *)
(***************************************************************************)
NoText == <<>>

\* one thing the run did: op on file f (0 when no file is concerned)
Ev(op, f, text, ms) == [op |-> op, f |-> f, text |-> text, ms |-> ms]

\* a value of main's `result`: null, or a string
Null == [isNull |-> TRUE, text |-> NoText]
Str(t) == [isNull |-> FALSE, text |-> t]

\* the text each matched file holds before the run
OrigText(f) == IF f % 2 = 1 THEN <<"a", "1">> ELSE <<"$", "&">>

\* the texts the completion service may answer with
Outputs == {<<>>, <<"A", "2">>, <<"B", "2">>, <<"C", "2">>}

\* the configured pause; its length has no influence on what the run does
Intervals == {500}

MainTemplate == <<"p", ":">> \o Token

inputs == <<hasConfigArg, apiKey, nMatched, dryRun, intervalMilis,
            userPromptTemplate>>
locals == <<content, userPrompt, result>>

\* process.exit(code), after the events evs
Exit(code, evs) ==
    /\ pc' = "exited"
    /\ exitCode' = code
    /\ i' = i
    /\ trace' = trace \o evs \o <<Ev("exit", 0, NoText, 0)>>

\* the for-of loop over list reaches its k-th element, after the events evs;
\* past the last element main returns and the process ends with code 0
BeginIteration(list, k, evs) ==
    /\ i' = k
    /\ IF k > Len(list)
       THEN /\ pc' = "done"
            /\ exitCode' = 0
            /\ trace' = trace \o evs \o <<Ev("allDone", 0, NoText, 0)>>
       ELSE /\ pc' = "read"
            /\ exitCode' = exitCode
            /\ trace' = trace \o evs \o <<Ev("processing", list[k], NoText, 0)>>

\* AfterGlob with the credential checked before the no-match exit
AfterGlob_KeyFirst(list, evs) ==
    IF ~apiKey THEN Exit(1, evs \o <<Ev("noApiKey", 0, NoText, 0)>>)
    ELSE IF Len(list) = 0 THEN Exit(0, evs)
    ELSE BeginIteration(list, 1, evs)

\* AfterGlob without the credential check
AfterGlob_NoKeyCheck(list, evs) ==
    IF Len(list) = 0 THEN Exit(0, evs)
    ELSE BeginIteration(list, 1, evs)

\* main, once glob() has returned list: the no-match exit, the credential
\* check, then the first iteration
AfterGlob(list, evs) ==
    IF Len(list) = 0 THEN Exit(0, evs)
    ELSE IF ~apiKey THEN Exit(1, evs \o <<Ev("noApiKey", 0, NoText, 0)>>)
    ELSE BeginIteration(list, 1, evs)

\* SkipFile that aborts the run in either mode
SkipFile_AlwaysExit(evs) ==
    Exit(1, evs \o <<Ev("skip", entries[i], NoText, 0)>>)

\* SkipFile that goes on to the next file in either mode
SkipFile_NeverExit(evs) ==
    BeginIteration(entries, i + 1, evs \o <<Ev("skip", entries[i], NoText, 0)>>)

\* SkipFile without the `continue`: a normal run falls through to the write
SkipFile_FallThrough(evs) ==
    IF dryRun THEN Exit(1, evs \o <<Ev("skip", entries[i], NoText, 0)>>)
    ELSE /\ pc' = "write"
         /\ trace' = trace \o evs \o <<Ev("skip", entries[i], NoText, 0)>>
         /\ UNCHANGED <<exitCode, i>>

\* SkipFile that waits intervalMilis before the next file
SkipFile_Paced(evs) ==
    IF dryRun THEN Exit(1, evs \o <<Ev("skip", entries[i], NoText, 0)>>)
    ELSE /\ pc' = "delay"
         /\ trace' = trace \o evs \o <<Ev("skip", entries[i], NoText, 0)>>
         /\ UNCHANGED <<exitCode, i>>

\* SkipFile that tries the same file again
SkipFile_Retry(evs) ==
    IF dryRun THEN Exit(1, evs \o <<Ev("skip", entries[i], NoText, 0)>>)
    ELSE BeginIteration(entries, i, evs \o <<Ev("skip", entries[i], NoText, 0)>>)

\* main, when processFile returned null
SkipFile(evs) ==
    LET f == entries[i] IN
    IF dryRun THEN Exit(1, evs \o <<Ev("skip", f, NoText, 0)>>)
    ELSE BeginIteration(entries, i + 1, evs \o <<Ev("skip", f, NoText, 0)>>)

\* DryRunOutput that prints but does not end the run
DryRunOutput_NoExit(r, evs) ==
    /\ pc' = "write"
    /\ trace' = trace \o evs \o <<Ev("print", entries[i], r, 0)>>
    /\ UNCHANGED <<exitCode, i>>

\* main, when processFile returned text r in dry-run mode
DryRunOutput(r, evs) ==
    Exit(0, evs \o <<Ev("print", entries[i], r, 0)>>)

\* Overwrite that writes to the first matched file instead of the current one
Overwrite_FirstEntry(f, text) == [disk EXCEPT ![entries[1]] = text]

\* what fs.writeFile(filePath, result) leaves on disk when it succeeds
Overwrite(f, text) == [disk EXCEPT ![f] = text]

\* processFile's return value for a settled request: the first choice's
\* content, or null when the request threw or returned no choice
Returned(kind, t) == IF kind = "respText" THEN Str(t) ELSE Null

\* the null test that also takes the empty string for a failure
IsNullResult_Falsy(r) == r.isNull \/ r.text = NoText

\* main's test result === null
IsNullResult(r) == r.isNull

\* ArmTimer that starts the next iteration without waiting
ArmTimer_NoWait(evs) == BeginIteration(entries, i + 1, evs)

\* ArmTimer whose promise is never resolved
ArmTimer_NeverResolves(evs) ==
    /\ pc' = "stuck"
    /\ trace' = trace \o evs
    /\ UNCHANGED <<exitCode, i>>

\* main after the try/catch around writeFile: the timer of intervalMilis is
\* armed and awaited
ArmTimer(evs) ==
    /\ pc' = "delay"
    /\ trace' = trace \o evs
    /\ UNCHANGED <<exitCode, i>>

\* WriteFailed that ends the run
WriteFailed_Exit(evs) == Exit(1, evs)

\* WriteFailed that goes to the next file without the pacing delay
WriteFailed_NoDelay(evs) == BeginIteration(entries, i + 1, evs)

\* main's catch block around writeFile: the error is reported, the run goes on
WriteFailed(evs) == ArmTimer(evs)

\* parseConfigArg that falls back to a default path
ParseConfigArg_DefaultPath ==
    /\ pc = "start"
    /\ pc' = "readConfig"
    /\ UNCHANGED <<exitCode, i, trace>>
    /\ UNCHANGED <<inputs, locals, entries, disk>>

\* 1. parseConfigArg
ParseConfigArg ==
    /\ pc = "start"
    /\ IF hasConfigArg
       THEN /\ pc' = "readConfig"
            /\ UNCHANGED <<exitCode, i, trace>>
       ELSE Exit(1, <<Ev("usage", 0, NoText, 0)>>)
    /\ UNCHANGED <<inputs, locals, entries, disk>>

\* 2. read and parse the config, check patterns
LoadConfig ==
    /\ pc = "readConfig"
    /\ \E outcome \in {"ok", "configUnreadable", "configUnparseable",
                       "badPatterns"} :
          IF outcome = "ok"
          THEN /\ pc' = "readSystem"
               /\ UNCHANGED <<exitCode, i, trace>>
          ELSE Exit(1, <<Ev(outcome, 0, NoText, 0)>>)
    /\ UNCHANGED <<inputs, locals, entries, disk>>

\* 3. read brush.system.md
LoadSystemPrompt ==
    /\ pc = "readSystem"
    /\ \E ok \in BOOLEAN :
          IF ok
          THEN /\ pc' = "readUser"
               /\ UNCHANGED <<exitCode, i, trace>>
          ELSE Exit(1, <<Ev("systemPromptFailed", 0, NoText, 0)>>)
    /\ UNCHANGED <<inputs, locals, entries, disk>>

\* 3. read brush.prompt.md
LoadUserPrompt ==
    /\ pc = "readUser"
    /\ \E ok \in BOOLEAN :
          IF ok
          THEN /\ pc' = "glob"
               /\ UNCHANGED <<exitCode, i, trace>>
          ELSE Exit(1, <<Ev("userPromptFailed", 0, NoText, 0)>>)
    /\ UNCHANGED <<inputs, locals, entries, disk>>

\* 4./5. glob() settles; on success main goes on to the first file
Glob ==
    /\ pc = "glob"
    /\ \E ok \in BOOLEAN :
          IF ok
          THEN /\ entries' = [k \in 1..nMatched |-> k]
               /\ AfterGlob(entries', <<Ev("glob", 0, NoText, 0)>>)
          ELSE /\ entries' = entries
               /\ Exit(1, <<Ev("globFailed", 0, NoText, 0)>>)
    /\ UNCHANGED <<inputs, locals, disk>>

\* processFile: fs.readFile settles; on success the prompt is rendered and
\* the completion request is sent
ReadFile ==
    /\ pc = "read"
    /\ LET f == entries[i] IN
       \E ok \in BOOLEAN :
          IF ok
          THEN /\ content' = disk[f]
               /\ userPrompt' = Render(userPromptTemplate, content')
               /\ result' = result
               /\ pc' = "request"
               /\ trace' = trace \o <<Ev("readOk", f, content', 0),
                                      Ev("request", f, userPrompt', 0)>>
               /\ UNCHANGED <<exitCode, i>>
          ELSE /\ result' = Null
               /\ SkipFile(<<Ev("readFail", f, NoText, 0)>>)
               /\ UNCHANGED <<content, userPrompt>>
    /\ UNCHANGED <<inputs, entries, disk>>

\* processFile: the request settles and main acts on the returned value
Respond ==
    /\ pc = "request"
    /\ LET f == entries[i] IN
       \E kind \in {"respError", "respNoChoices", "respNull", "respText"} :
       \E t \in Outputs :
          /\ kind # "respText" => t = NoText
          /\ result' = Returned(kind, t)
          /\ IF IsNullResult(result')
             THEN SkipFile(<<Ev(kind, f, t, 0)>>)
             ELSE IF dryRun
             THEN DryRunOutput(result'.text, <<Ev(kind, f, t, 0)>>)
             ELSE /\ pc' = "write"
                  /\ trace' = trace \o <<Ev(kind, f, t, 0)>>
                  /\ UNCHANGED <<exitCode, i>>
    /\ UNCHANGED <<inputs, content, userPrompt, entries, disk>>

\* fs.writeFile settles; a failed write leaves the file as it was or
\* truncated; then the timer is armed
WriteFile ==
    /\ pc = "write"
    /\ LET f == entries[i] IN
       \/ /\ disk' = Overwrite(f, result.text)
          /\ ArmTimer(<<Ev("writeOk", f, result.text, 0)>>)
       \/ /\ disk' \in {disk, [disk EXCEPT ![f] = NoText]}
          /\ WriteFailed(<<Ev("writeFail", f, NoText, 0)>>)
    /\ UNCHANGED <<inputs, locals, entries>>

\* the setTimeout of intervalMilis fires; the loop goes on
Pace ==
    /\ pc = "delay"
    /\ BeginIteration(entries, i + 1,
                      <<Ev("delay", entries[i], NoText, intervalMilis)>>)
    /\ UNCHANGED <<inputs, locals, entries, disk>>

Init ==
    /\ pc = "start"
    /\ exitCode = -1
    /\ hasConfigArg \in BOOLEAN
    /\ apiKey \in BOOLEAN
    /\ nMatched \in 0..MaxFiles
    /\ dryRun \in BOOLEAN
    /\ intervalMilis \in Intervals
    /\ userPromptTemplate = MainTemplate
    /\ entries = <<>>
    /\ i = 0
    /\ content = NoText
    /\ userPrompt = NoText
    /\ result = Null
    /\ disk = [f \in 1..nMatched |-> OrigText(f)]
    /\ trace = <<>>

Next ==
    \/ ParseConfigArg
    \/ LoadConfig
    \/ LoadSystemPrompt
    \/ LoadUserPrompt
    \/ Glob
    \/ ReadFile
    \/ Respond
    \/ WriteFile
    \/ Pace

Spec == Init /\ [][Next]_vars

\* every pending read, request, write and timer eventually settles
FairSpec == Spec /\ WF_vars(Next)

(***************************************************************************)
(* The template renderer on its own: any template, any content.            *)
(***************************************************************************)
Pieces == {<<"x">>, Token, SpacedToken, <<"{", "{", "C", "O", "N">>,
           <<"T", "E", "N", "T", "}", "}">>}

RECURSIVE Concats(_)
Concats(n) ==
    IF n = 0 THEN {<<>>}
    ELSE LET prev == Concats(n - 1) IN
         prev \cup {s \o p : s \in prev, p \in Pieces}

Templates == Concats(MaxPieces)

ContentAlphabet == {"a", "$", "&", "`", "'"}

Contents ==
    UNION {[1..n -> ContentAlphabet] : n \in 0..MaxContentLen} \cup {Token}

RenderInit ==
    /\ pc = "render"
    /\ exitCode = -1
    /\ hasConfigArg = TRUE
    /\ apiKey = TRUE
    /\ nMatched = 0
    /\ dryRun = FALSE
    /\ intervalMilis = 1000
    /\ userPromptTemplate \in Templates
    /\ entries = <<>>
    /\ i = 0
    /\ content \in Contents
    /\ userPrompt = NoText
    /\ result = Null
    /\ disk = <<>>
    /\ trace = <<>>

RenderStep ==
    /\ pc = "render"
    /\ userPrompt' = Render(userPromptTemplate, content)
    /\ pc' = "rendered"
    /\ UNCHANGED <<exitCode, inputs, entries, i, content, result, disk, trace>>

RenderNext == RenderStep

SpecRender == RenderInit /\ [][RenderNext]_vars

TypeOK ==
    /\ pc \in {"start", "readConfig", "readSystem", "readUser", "glob", "read",
               "request", "write", "delay", "done", "exited", "render",
               "rendered"}
    /\ exitCode \in {-1, 0, 1}
    /\ i \in 0..(MaxFiles + 1)

(***************************************************************************)
(* What a run did, read off its trace.                                     *)
(***************************************************************************)
Only(op) == SelectSeq(trace, LAMBDA e : e.op = op)
OnlyFor(op, f) == SelectSeq(trace, LAMBDA e : e.op = op /\ e.f = f)
At(op) == {k \in 1..Len(trace) : trace[k].op = op}
Count(op) == Len(Only(op))
CountFor(op, f) == Len(OnlyFor(op, f))
FilesWith(op) == {trace[k].f : k \in At(op)}

Terminated == pc \in {"done", "exited"}
InitDisk == [f \in 1..nMatched |-> OrigText(f)]

ReadAttempts == Count("readOk") + Count("readFail")
ReadAttemptsFor(f) == CountFor("readOk", f) + CountFor("readFail", f)
FilesRead == FilesWith("readOk") \cup FilesWith("readFail")
WriteAttempts == Count("writeOk") + Count("writeFail")
WriteAttemptsFor(f) == CountFor("writeOk", f) + CountFor("writeFail", f)

\* the values processFile returned for file f
OutcomeOps == {"readFail", "respError", "respNoChoices", "respNull", "respText"}
OutcomesFor(f) == SelectSeq(trace, LAMBDA e : e.op \in OutcomeOps /\ e.f = f)

\* the text the request made for file f returned
ResponseText(f) == OnlyFor("respText", f)[1].text
PrintedText(f) == OnlyFor("print", f)[1].text

\* the files whose loop iteration began, in order
ProcessingOrder ==
    LET started == Only("processing") IN
    [n \in 1..Len(started) |-> started[n].f]

\* the ops of the events of file f, in order
OpsOf(f) ==
    LET own == SelectSeq(trace, LAMBDA e : e.f = f) IN
    [n \in 1..Len(own) |-> own[n].op]

\* how often x occurs in the sequence ops
CountIn(ops, x) == Len(SelectSeq(ops, LAMBDA o : o = x))
WritesIn(ops) == CountIn(ops, "writeOk") + CountIn(ops, "writeFail")
OutcomesIn(ops) == Len(SelectSeq(ops, LAMBDA o : o \in OutcomeOps))

(***************************************************************************)
(* C1: in a dry run over K >= 1 matched files only the first file is ever  *)
(* read, it is read once the run reaches the files, at most one request is *)
(* issued and nothing is written; when the transform of the first file     *)
(* succeeds its text is printed and the run ends with exit code 0, no      *)
(* second file having been read.                                           *)
(***************************************************************************)
C1_DryRunSingleFile ==
    (dryRun /\ nMatched >= 1) =>
        /\ FilesRead \subseteq {1}
        /\ ReadAttempts <= 1
        /\ Count("request") <= 1
        /\ WriteAttempts = 0
        /\ disk = InitDisk
        /\ (Count("processing") > 0 /\ Terminated) => ReadAttempts = 1
        /\ Count("respText") = 1 =>
              /\ pc = "exited"
              /\ exitCode = 0
              /\ Count("print") = 1
              /\ PrintedText(1) = ResponseText(1)
              /\ ReadAttemptsFor(1) = 1
              /\ \A f \in 2..nMatched : ReadAttemptsFor(f) = 0

C1_Witness ==
    /\ dryRun
    /\ nMatched >= 2
    /\ pc = "exited"
    /\ exitCode = 0
    /\ Count("print") = 1
    /\ PrintedText(1) = <<"A", "2">>

(***************************************************************************)
(* C2: a normal run over K >= 2 files in which every read, request and     *)
(* write succeeds makes exactly K-1 pacing delays, none of them after the  *)
(* commit of the last file.                                                *)
(***************************************************************************)
C2_PacingBetweenCommitsOnly ==
    (~dryRun /\ nMatched >= 2 /\ pc = "done" /\ Count("writeOk") = nMatched) =>
        /\ Count("delay") = nMatched - 1
        /\ CountFor("delay", nMatched) = 0

(***************************************************************************)
(* C3 as stated: without the credential every run ends with exit code 1    *)
(* before file matching is performed and with no request issued.           *)
(***************************************************************************)
C3_AbortBeforeMatching ==
    (~apiKey /\ Terminated) =>
        /\ exitCode = 1
        /\ Count("glob") = 0
        /\ Count("request") = 0

(***************************************************************************)
(* C3 amended: without the credential no request is issued and no matched  *)
(* file is read or written; the credential is checked after matching, so a *)
(* run whose matching found at least one file ends with exit code 1 right  *)
(* after matching, and one whose matching found no file ends with exit     *)
(* code 0.                                                                 *)
(***************************************************************************)
C3_AbortAfterMatching ==
    ~apiKey =>
        /\ Count("request") = 0
        /\ Count("processing") = 0
        /\ ReadAttempts = 0
        /\ WriteAttempts = 0
        /\ disk = InitDisk
        /\ pc \notin {"read", "request", "write", "delay", "done"}
        /\ Count("glob") = 1 =>
              /\ pc = "exited"
              /\ exitCode = (IF nMatched = 0 THEN 0 ELSE 1)
        /\ Terminated => (exitCode = 1 \/ (Count("glob") = 1 /\ nMatched = 0))

C3_Witness ==
    /\ ~apiKey
    /\ nMatched >= 1
    /\ Count("glob") = 1
    /\ pc = "exited"
    /\ exitCode = 1

(***************************************************************************)
(* C4: in a normal run a file that fails at its read or at its request is  *)
(* skipped and the next matched file is started; the run never aborts once *)
(* it reached the files, and when it ends every matched file has been      *)
(* attempted, in order, and the exit code is 0.                            *)
(***************************************************************************)
C4_SkipDoesNotHalt ==
    ~dryRun =>
        /\ Count("processing") > 0 => (pc # "exited" /\ exitCode # 1)
        /\ \A k \in At("skip") :
              /\ k < Len(trace)
              /\ IF trace[k].f < nMatched
                 THEN trace[k + 1].op = "processing" /\ trace[k + 1].f = trace[k].f + 1
                 ELSE trace[k + 1].op = "allDone"
        /\ pc = "done" =>
              /\ exitCode = 0
              /\ ProcessingOrder = [n \in 1..nMatched |-> n]
              /\ \A f \in 1..nMatched : ReadAttemptsFor(f) = 1

C4_Witness ==
    /\ ~dryRun
    /\ nMatched = 3
    /\ pc = "done"
    /\ exitCode = 0
    /\ CountFor("readFail", 1) = 1
    /\ CountFor("respError", 2) = 1
    /\ CountFor("skip", 1) = 1
    /\ CountFor("skip", 2) = 1
    /\ CountFor("writeOk", 3) = 1

(***************************************************************************)
(* The renderer the contract describes: every match replaced by the        *)
(* content exactly as it is.                                               *)
(***************************************************************************)
RECURSIVE ReplaceVerbatimFrom(_, _, _)
ReplaceVerbatimFrom(t, p, c) ==
    IF p > Len(t) THEN <<>>
    ELSE LET n == MatchLen(t, p) IN
         IF n > 0 THEN c \o ReplaceVerbatimFrom(t, p + n, c)
         ELSE <<t[p]>> \o ReplaceVerbatimFrom(t, p + 1, c)

\* number of placeholder tokens a left-to-right scan of t finds from p on
RECURSIVE TokensFrom(_, _)
TokensFrom(t, p) ==
    IF p > Len(t) THEN 0
    ELSE LET n == MatchLen(t, p) IN
         IF n > 0 THEN 1 + TokensFrom(t, p + n) ELSE TokensFrom(t, p + 1)

TokenCount(t) == TokensFrom(t, 1)

(***************************************************************************)
(* C5: rendering returns the template with every placeholder token         *)
(* replaced by the content verbatim, whatever characters the content has;  *)
(* a template without the token is returned unchanged.                     *)
(***************************************************************************)
C5_RenderVerbatim ==
    pc = "rendered" =>
        /\ userPrompt = ReplaceVerbatimFrom(userPromptTemplate, 1, content)
        /\ TokenCount(userPromptTemplate) = 0 => userPrompt = userPromptTemplate

(***************************************************************************)
(* C6: when matching finds no file the run ends at once with exit code 0,  *)
(* with no request issued, no matched file read and nothing written.       *)
(***************************************************************************)
C6_ZeroMatchExitsZero ==
    (Count("glob") = 1 /\ nMatched = 0) =>
        /\ pc = "exited"
        /\ exitCode = 0
        /\ Count("request") = 0
        /\ ReadAttempts = 0
        /\ WriteAttempts = 0
        /\ Count("processing") = 0

C6_Witness ==
    /\ Count("glob") = 1
    /\ nMatched = 0
    /\ ~apiKey
    /\ pc = "exited"
    /\ exitCode = 0

(***************************************************************************)
(* C7: in a dry run a failure of the first file (its read, its request, or *)
(* a response without a completion) ends the run at once with exit code 1; *)
(* no other file is attempted and nothing is written.                      *)
(***************************************************************************)
C7_DryRunFailureAborts ==
    LET failed == Count("readFail") + Count("respError")
                  + Count("respNoChoices") + Count("respNull") IN
    (dryRun /\ failed > 0) =>
        /\ failed = 1
        /\ pc = "exited"
        /\ exitCode = 1
        /\ trace[Len(trace)].op = "exit"
        /\ trace[Len(trace) - 1].op = "skip"
        /\ trace[Len(trace) - 2].op \in OutcomeOps \ {"respText"}
        /\ FilesWith("processing") = {1}
        /\ Count("processing") = 1
        /\ WriteAttempts = 0
        /\ Count("print") = 0
        /\ disk = InitDisk

C7_Witness ==
    /\ dryRun
    /\ nMatched >= 2
    /\ Count("respNull") = 1
    /\ pc = "exited"
    /\ exitCode = 1

(***************************************************************************)
(* C8: in a normal run a file whose write succeeded holds, from then on    *)
(* and at the end of the run, exactly the text that the request made for   *)
(* that same file returned.                                                *)
(***************************************************************************)
C8_FileHoldsOwnResponse ==
    ~dryRun =>
        \A f \in 1..nMatched :
            CountFor("writeOk", f) > 0 =>
                /\ CountFor("respText", f) = 1
                /\ disk[f] = ResponseText(f)

C8_Witness ==
    /\ ~dryRun
    /\ nMatched = 3
    /\ pc = "done"
    /\ exitCode = 0
    /\ Count("writeOk") = 3
    /\ disk = <<<<"A", "2">>, <<"B", "2">>, <<"C", "2">>>>

(***************************************************************************)
(* C9: every attempted file has at most one outcome, and exactly one once  *)
(* its iteration is over; it ends in exactly one of: skipped, written      *)
(* (successfully or not), printed; no file is both reported as skipped and *)
(* written, and a skipped file holds the text it held before the run.      *)
(***************************************************************************)
IterationOver(f) ==
    /\ \/ f < i
       \/ Terminated
    /\ CountFor("processing", f) > 0

C9_OneOutcomePerFile ==
    \A f \in 1..nMatched :
        LET ops == OpsOf(f)
            ends == CountIn(ops, "skip") + WritesIn(ops) + CountIn(ops, "print")
        IN
        /\ CountIn(ops, "processing") <= 1
        /\ OutcomesIn(ops) <= 1
        /\ CountIn(ops, "processing") = 0 => OutcomesIn(ops) = 0
        /\ ends <= 1
        /\ IterationOver(f) => (OutcomesIn(ops) = 1 /\ ends = 1)
        /\ CountIn(ops, "skip") > 0 =>
              /\ WritesIn(ops) = 0
              /\ disk[f] = OrigText(f)

C9_Witness ==
    /\ ~dryRun
    /\ nMatched = 3
    /\ pc = "done"
    /\ CountFor("skip", 2) = 1
    /\ CountFor("writeOk", 1) = 1
    /\ CountFor("writeOk", 3) = 1
    /\ disk[2] = OrigText(2)
    /\ disk[1] # OrigText(1)

(***************************************************************************)
(* C10: in a normal run no pacing delay follows a skipped file: right      *)
(* after the skip is reported the next file is started (or the run ends).  *)
(***************************************************************************)
C10_NoDelayAfterSkip ==
    ~dryRun =>
        \A k \in At("skip") :
            /\ CountFor("delay", trace[k].f) = 0
            /\ k < Len(trace)
            /\ trace[k + 1].op \in {"processing", "allDone"}
            /\ pc # "delay" \/ entries[i] # trace[k].f

C10_Witness ==
    /\ ~dryRun
    /\ nMatched >= 2
    /\ CountFor("skip", 1) = 1
    /\ CountFor("processing", 2) = 1
    /\ trace[Len(trace)].op = "processing"
    /\ Count("delay") = 0

(***************************************************************************)
(* C11: in a normal run a failed write is reported and the run goes on:    *)
(* it never aborts, every later file is attempted and the exit code is 0.  *)
(***************************************************************************)
C11_WriteFailureDoesNotHalt ==
    (~dryRun /\ Count("writeFail") > 0) =>
        /\ pc # "exited"
        /\ exitCode # 1
        /\ \A f \in FilesWith("writeFail") :
              (f < i /\ f < nMatched) => CountFor("processing", f + 1) = 1
        /\ pc = "done" =>
              /\ exitCode = 0
              /\ ProcessingOrder = [n \in 1..nMatched |-> n]

C11_Witness ==
    /\ ~dryRun
    /\ nMatched = 3
    /\ pc = "done"
    /\ exitCode = 0
    /\ CountFor("writeFail", 1) = 1
    /\ CountFor("writeOk", 2) = 1
    /\ CountFor("writeFail", 3) = 1

(***************************************************************************)
(* C12 as stated: whenever a precondition fails (no --config argument, bad *)
(* config or patterns, unreadable prompt file, matcher failure, missing    *)
(* credential) the run ends with exit code 1 and no matched file is read,  *)
(* requested for or written.                                               *)
(***************************************************************************)
FailureOps == {"usage", "configUnreadable", "configUnparseable", "badPatterns",
               "systemPromptFailed", "userPromptFailed", "globFailed",
               "noApiKey"}
FailuresDetected == Len(SelectSeq(trace, LAMBDA e : e.op \in FailureOps))

NoFileTouched ==
    /\ Count("processing") = 0
    /\ ReadAttempts = 0
    /\ Count("request") = 0
    /\ WriteAttempts = 0
    /\ disk = InitDisk

C12_AnyPreconditionFailureExitsOne ==
    (Terminated /\ (FailuresDetected > 0 \/ ~hasConfigArg \/ ~apiKey)) =>
        /\ exitCode = 1
        /\ NoFileTouched

(***************************************************************************)
(* C12 amended: every precondition failure the run detects ends it at once *)
(* with exit code 1 before any matched file is read, requested for or      *)
(* written; a missing --config argument is always detected, a missing      *)
(* credential only once matching found at least one file (with no matched  *)
(* file the run ends with exit code 0).                                    *)
(***************************************************************************)
C12_DetectedPreconditionFailureExitsOne ==
    /\ FailuresDetected > 0 =>
          /\ FailuresDetected = 1
          /\ trace[Len(trace) - 1].op \in FailureOps
          /\ pc = "exited"
          /\ exitCode = 1
          /\ NoFileTouched
    /\ (~hasConfigArg /\ pc # "start") => Count("usage") = 1
    /\ (~apiKey /\ Count("glob") = 1) =>
          IF nMatched = 0
          THEN FailuresDetected = 0 /\ exitCode = 0 /\ NoFileTouched
          ELSE Count("noApiKey") = 1

C12_Witness ==
    /\ Count("badPatterns") = 1
    /\ nMatched >= 1
    /\ apiKey
    /\ pc = "exited"
    /\ exitCode = 1

(***************************************************************************)
(* C13: files are processed one at a time in the matcher's order: the      *)
(* events of the run never go back to an earlier file, and a file is       *)
(* started only right after the previous file's skip or right after the    *)
(* pacing delay that follows the previous file's write attempt.            *)
(***************************************************************************)
FileEvents == SelectSeq(trace, LAMBDA e : e.f > 0)

C13_StrictlySequential ==
    LET fileEvents == FileEvents
        order == ProcessingOrder
    IN
    /\ order = [n \in 1..Len(order) |-> n]
    /\ \A n \in 1..(Len(fileEvents) - 1) : fileEvents[n].f <= fileEvents[n + 1].f
    /\ \A k \in At("processing") :
          IF trace[k].f = 1 THEN trace[k - 1].op = "glob"
          ELSE /\ trace[k - 1].op \in {"skip", "delay"}
               /\ trace[k - 1].f = trace[k].f - 1
    /\ \A k \in At("delay") :
          /\ trace[k - 1].op \in {"writeOk", "writeFail"}
          /\ trace[k - 1].f = trace[k].f
    /\ pc \in {"read", "request", "write", "delay"} =>
          /\ entries[i] = i
          /\ fileEvents[Len(fileEvents)].f = i

C13_Witness ==
    /\ nMatched = 3
    /\ pc = "read"
    /\ i = 3
    /\ CountFor("delay", 1) = 1
    /\ CountFor("skip", 2) = 1
    /\ trace[Len(trace)].op = "processing"

(***************************************************************************)
(* C14: the steps of every file follow read, request, decision, then write *)
(* or skip, without retry: a file is read at most once, requested for at   *)
(* most once and only after its read succeeded, written at most once and   *)
(* only after its request returned a completion.                           *)
(***************************************************************************)
FileRuns ==
    {<<"processing", "readFail", "skip">>}
    \cup {<<"processing", "readOk", "request", k, "skip">> :
            k \in {"respError", "respNoChoices", "respNull"}}
    \cup {<<"processing", "readOk", "request", "respText", "print">>}
    \cup {<<"processing", "readOk", "request", "respText", w, "delay">> :
            w \in {"writeOk", "writeFail"}}

IsPrefix(a, b) == Len(a) <= Len(b) /\ SubSeq(b, 1, Len(a)) = a

C14_StepOrderNoRetry ==
    \A f \in 1..nMatched :
        LET ops == OpsOf(f) IN
        /\ \E r \in FileRuns : IsPrefix(ops, r)
        /\ CountIn(ops, "readOk") + CountIn(ops, "readFail") <= 1
        /\ CountIn(ops, "request") <= 1
        /\ WritesIn(ops) <= 1
        /\ CountIn(ops, "request") = 1 => CountIn(ops, "readOk") = 1
        /\ WritesIn(ops) = 1 => CountIn(ops, "respText") = 1

C14_Witness ==
    /\ ~dryRun
    /\ nMatched >= 2
    /\ pc = "done"
    /\ OpsOf(1) = <<"processing", "readOk", "request", "respText", "writeOk",
                    "delay">>
    /\ OpsOf(2) = <<"processing", "readOk", "request", "respNoChoices", "skip">>

Decided(f) == IterationOver(f) \/ (f = i /\ pc \in {"write", "delay"})

C16_WrittenIffContentNotNull ==
    ~dryRun =>
        \A f \in 1..nMatched :
            LET ops == OpsOf(f) IN
            /\ WritesIn(ops) = 1 =>
                  (CountIn(ops, "readOk") = 1 /\ CountIn(ops, "respText") = 1)
            /\ (CountIn(ops, "respText") = 1 /\ Decided(f)) =>
                  /\ CountIn(ops, "skip") = 0
                  /\ (f # i \/ pc # "write") => WritesIn(ops) = 1
            /\ (CountIn(ops, "respText") = 1 /\ CountIn(ops, "writeOk") = 1
                  /\ ResponseText(f) = NoText) => disk[f] = NoText
            /\ CountIn(ops, "respNull") + CountIn(ops, "respNoChoices") > 0 =>
                  /\ CountIn(ops, "skip") = 1
                  /\ WritesIn(ops) = 0
                  /\ disk[f] = OrigText(f)

C16_Witness ==
    /\ ~dryRun
    /\ nMatched = 3
    /\ pc = "done"
    /\ CountFor("respText", 1) = 1
    /\ ResponseText(1) = NoText
    /\ CountFor("writeOk", 1) = 1
    /\ disk[1] = NoText
    /\ CountFor("respNull", 2) = 1
    /\ CountFor("respNoChoices", 3) = 1
    /\ disk[2] = OrigText(2)
    /\ disk[3] = OrigText(3)

(***************************************************************************)
(* C17: when every read, request, write and timer eventually settles, the  *)
(* run eventually ends (exit code 0 or 1), and no file's iteration is ever *)
(* started twice.                                                          *)
(***************************************************************************)
C17_EventuallyTerminates ==
    /\ <>(Terminated /\ exitCode \in {0, 1})
    /\ [](\A f \in 1..nMatched : CountFor("processing", f) <= 1)

C17_Witness ==
    /\ ~dryRun
    /\ nMatched = 3
    /\ pc = "done"
    /\ exitCode = 0
    /\ Count("skip") = 1
    /\ Count("writeFail") = 1
    /\ Count("writeOk") = 1

====
